---- MODULE Spec2Model ----
(***************************************************************************)
(* Model of puppetserver-metrics.py: the gauge scaling functions           *)
(* (Widget.unit, Widget.limitlabel), the Widget limit/value operations,    *)
(* the Metric refresh and rate derivation, and the Application.run loop.   *)
(*                                                                         *)
(* Numbers.  A sample value is a non-negative rational w + f/Den, kept as  *)
(* the record [w |-> whole part, f |-> numerator of the fraction], so that *)
(* the values next to 2^30 stay inside TLC's 32-bit integers.  Limits are  *)
(* the integers math.ceil returns.  Python's floats are modelled by exact  *)
(* arithmetic.  Text is a sequence of one-character strings.               *)
(***************************************************************************)
EXTENDS Integers, Sequences, FiniteSets, TLC

VARIABLES
    \* --- pure scaling functions, applied to one drawn input ---
    arg,            \* the value handed to unit / limitlabel
    prec,           \* the precision handed to unit
    ret_limitlabel, \* what limitlabel returned, NoResult before the call
    ret_unit,       \* what unit returned, NoResult before the call
    \* --- one Widget ---
    _upper_limit,   \* Widget._upper_limit
    _lower_limit,   \* Widget._lower_limit
    ulabel,         \* the limit label written at (1, 31) by upper_limit
    llabel,         \* the limit label written at (3, 31) by lower_limit
    mlabel,         \* the limit label written at (2, 31) by limit
    ubar,           \* number of filled cells of the upper track
    lbar,           \* number of filled cells of the lower track
    wraised,        \* the exception a widget call raised, "none" if none did
    hist,           \* the first calls made on the widget since its construction
    \* --- Application.run ---
    pc,             \* position of the main thread in Application.run
    done,           \* Application.done (threading.Event flag)
    screen,         \* the terminal: "none", "held" (initscr), "released" (endwin)
    result,         \* how run ended: "running", "returned", "raised"
    now,            \* wall clock (time.time()), in seconds
    loop_time,      \* run's local loop_time
    next_loop_time, \* run's local next_loop_time
    refresh_interval, \* Application.refresh_interval
    work_end,       \* clock value at which the last cadence wait was entered
    tick_fail,      \* a refresh of the current iteration got a non-200 answer
    last_timestamp, \* metric1.last_timestamp
    curr_timestamp, \* metric1.curr_timestamp
    cpu_time,       \* metric1.metrics value 'ProcessCpuTime' (ns), None if absent
    prev_value,     \* metric1.prev_value (kept in ns)
    delta,          \* what the process_cpu_time getter last returned
    getter_error,   \* the exception the getter raised, "none" if it did not
    has_data        \* for metric2 and metric3: metrics holds a 'value' document

scaleVars  == <<arg, prec, ret_limitlabel, ret_unit>>
widgetVars == <<_upper_limit, _lower_limit, ulabel, llabel, mlabel,
                ubar, lbar, wraised, hist>>
appVars    == <<pc, done, screen, result, now, loop_time, next_loop_time,
                refresh_interval, work_end, tick_fail,
                last_timestamp, curr_timestamp, cpu_time, prev_value, delta,
                getter_error, has_data>>
vars       == <<scaleVars, widgetVars, appVars>>

(***************************************************************************)
(* Bounds of the model.                                                    *)
(***************************************************************************)
\* resolution of the sample values: fractions are multiples of 1/Den
Den == 2
\* largest precision handed to unit (the program uses 0, 1 and 2)
MaxPrec == 2
\* number of widget calls whose arguments hist records
MaxHist == 2
\* the clock runs from 0 to MaxTime
MaxTime == 4
\* longest duration of one refresh or of one drawing pass
MaxStep == 1
\* refresh intervals 1..MaxInterval
MaxInterval == 2
\* the server's timestamps are 1..MaxTs
MaxTs == 2
\* the server's ProcessCpuTime counter is 0..MaxCounter
MaxCounter == 1

\* Python's None, for a limit, a timestamp or a counter that is not set
None == -1

NoResult == [none |-> TRUE]

K1 == 1024
M1 == 1024 * 1024
G1 == 1024 * 1024 * 1024

(***************************************************************************)
(* Arithmetic on sample values.                                            *)
(***************************************************************************)
Val(w, f) == [w |-> w, f |-> f]

\* value <= k, for an integer k
LeInt(v, k) == v.w < k \/ (v.w = k /\ v.f = 0)

\* value >= k instead of value > k
GeInt(v, k) == v.w >= k

\* value > k, for an integer k
GtInt(v, k) == ~LeInt(v, k)

\* value1 <= value2
LeVal(a, b) == a.w < b.w \/ (a.w = b.w /\ a.f <= b.f)

\* value / k rounded down instead of up
FloorDiv(v, k) == v.w \div k

\* math.ceil(value / k), for an integer k > 0
CeilDiv(v, k) == (v.w \div k) + (IF v.w % k # 0 \/ v.f # 0 THEN 1 ELSE 0)

(***************************************************************************)
(* Text.                                                                   *)
(***************************************************************************)
DigitChar(d) == <<"0", "1", "2", "3", "4", "5", "6", "7", "8", "9">>[d + 1]

RECURSIVE Digits(_)
\* the decimal digits of a natural number
Digits(n) == IF n < 10 THEN <<DigitChar(n)>>
             ELSE Append(Digits(n \div 10), DigitChar(n % 10))

RECURSIVE Pow10(_)
Pow10(p) == IF p = 0 THEN 1 ELSE 10 * Pow10(p - 1)

RECURSIVE Spaces(_)
Spaces(n) == IF n <= 0 THEN <<>> ELSE <<" ">> \o Spaces(n - 1)

RECURSIVE ZeroPad(_, _)
\* s padded on the left with zeros to n characters
ZeroPad(s, n) == IF Len(s) >= n THEN s ELSE ZeroPad(<<"0">> \o s, n)

\* "{:.<p>f}".format(x) for x = whole + (r + f/Den)/d, with 0 <= r < d and d
\* equal to 1 or even: x rounded to p decimals, ties to even
FormatFixed(whole, r, f, d, p) ==
    LET scale == Pow10(p)
        A     == r * scale + ((f * scale) \div Den)
        g     == (f * scale) % Den
        a     == A % d
        base  == whole * scale + (A \div d)
        above == IF d = 1 THEN 2 * g > Den ELSE a > d \div 2 \/ (a = d \div 2 /\ g > 0)
        half  == IF d = 1 THEN 2 * g = Den ELSE a = d \div 2 /\ g = 0
        tot   == IF above \/ (half /\ base % 2 = 1) THEN base + 1 ELSE base
    IN  IF p = 0 THEN Digits(tot)
        ELSE Digits(tot \div scale) \o <<".">> \o ZeroPad(Digits(tot % scale), p)

\* "{:>3.3}": the field padded on the left instead of on the right
Fmt3Right(s) ==
    LET t == IF Len(s) > 3 THEN SubSeq(s, 1, 3) ELSE s
    IN  Spaces(3 - Len(t)) \o t

\* "{:<3.3}".format(s): cut to 3 characters, padded on the right to 3
Fmt3(s) ==
    LET t == IF Len(s) > 3 THEN SubSeq(s, 1, 3) ELSE s
    IN  t \o Spaces(3 - Len(t))

(***************************************************************************)
(* Widget.unit and Widget.limitlabel.                                      *)
(***************************************************************************)
\* value / 2^k formatted with the precision, k given by its power d = 2^k
Scaled(value, d, precision) ==
    FormatFixed(value.w \div d, value.w % d, value.f, d, precision)

unit(value, precision) ==
    IF GtInt(value, G1)
    THEN [text |-> Scaled(value, G1, precision) \o <<"G">>, suffix |-> "G", div |-> G1]
    ELSE IF GtInt(value, M1)
    THEN [text |-> Scaled(value, M1, precision) \o <<"M">>, suffix |-> "M", div |-> M1]
    ELSE IF GtInt(value, K1)
    THEN [text |-> Scaled(value, K1, precision) \o <<"K">>, suffix |-> "K", div |-> K1]
    ELSE [text |-> Scaled(value, 1, precision), suffix |-> "", div |-> 1]

limitlabel(value) ==
    IF LeInt(value, 10)
    THEN LET limit == CeilDiv(value, 1)
         IN  [limit |-> limit, label |-> Fmt3(FormatFixed(limit, 0, 0, 1, 0)),
              suffix |-> "", div |-> 1]
    ELSE IF LeInt(value, 100)
    THEN LET limit == CeilDiv(value, 10) * 10
         IN  [limit |-> limit, label |-> Fmt3(FormatFixed(limit, 0, 0, 1, 0)),
              suffix |-> "", div |-> 1]
    ELSE IF LeInt(value, 1000)
    THEN LET limit == CeilDiv(value, 100) * 100
         IN  [limit |-> limit, label |-> Fmt3(FormatFixed(limit, 0, 0, 1, 0)),
              suffix |-> "", div |-> 1]
    ELSE IF LeInt(value, 1024000)
    THEN LET limit == CeilDiv(value, K1) * K1
         IN  [limit |-> limit,
              label |-> Fmt3(FormatFixed(limit \div K1, limit % K1, 0, K1, 0) \o <<"K">>),
              suffix |-> "K", div |-> K1]
    ELSE IF LeInt(value, 1024000000)
    THEN LET limit == CeilDiv(value, M1) * M1
         IN  [limit |-> limit,
              label |-> Fmt3(FormatFixed(limit \div M1, limit % M1, 0, M1, 0) \o <<"M">>),
              suffix |-> "M", div |-> M1]
    ELSE LET limit == CeilDiv(value, G1) * G1
         IN  [limit |-> limit,
              label |-> Fmt3(FormatFixed(limit \div G1, limit % G1, 0, G1, 0) \o <<"G">>),
              suffix |-> "G", div |-> G1]

(***************************************************************************)
(* The inputs of the scaling functions: the branch boundaries of unit and  *)
(* limitlabel, with the values 1/Den below and 1/Den above each.           *)
(***************************************************************************)
KeyPoints == {0, 1, 2, 5, 10, 50, 100, 500, 1000, K1, 2048, 1024000, M1,
              3500000, 1024000000, 1024458752, G1}

ScaleValues == {Val(k, f) : k \in KeyPoints, f \in {0, 1}}
                  \cup {Val(k - 1, Den - 1) : k \in KeyPoints \ {0}}

\* limitlabel's result for a value above 2^30 is 2^31 or more, outside TLC's
\* 32-bit integers: limitlabel is applied up to 2^30
InLimitDomain(value) == LeInt(value, G1)

(***************************************************************************)
(* Idle values of the parts a specification does not exercise.             *)
(***************************************************************************)
ScaleIdle ==
    /\ arg = Val(0, 0) /\ prec = 0
    /\ ret_limitlabel = NoResult /\ ret_unit = NoResult

\* Widget.__init__
WidgetInit ==
    /\ _upper_limit = None /\ _lower_limit = None
    /\ ulabel = <<>> /\ llabel = <<>> /\ mlabel = <<>>
    /\ ubar = 0 /\ lbar = 0
    /\ wraised = "none"
    /\ hist = [n |-> 0, calls |-> <<>>]

AppIdle ==
    /\ pc = "idle" /\ done = FALSE /\ screen = "none" /\ result = "running"
    /\ now = 0 /\ loop_time = None /\ next_loop_time = None
    /\ refresh_interval = 0 /\ work_end = None
    /\ tick_fail = FALSE
    /\ last_timestamp = None /\ curr_timestamp = None
    /\ cpu_time = None /\ prev_value = None
    /\ delta = NoResult /\ getter_error = "none"
    /\ has_data = [m \in 2..3 |-> FALSE]

(***************************************************************************)
(* ScaleSpec: unit and limitlabel applied to one drawn input.              *)
(***************************************************************************)
ScaleInit ==
    /\ arg \in ScaleValues
    /\ prec \in 0..MaxPrec
    /\ ret_limitlabel = NoResult /\ ret_unit = NoResult
    /\ WidgetInit /\ AppIdle

CallLimitlabel ==
    /\ ret_limitlabel = NoResult
    /\ InLimitDomain(arg)
    /\ ret_limitlabel' = limitlabel(arg)
    /\ UNCHANGED <<arg, prec, ret_unit, widgetVars, appVars>>

CallUnit ==
    /\ ret_unit = NoResult
    /\ ret_unit' = unit(arg, prec)
    /\ UNCHANGED <<arg, prec, ret_limitlabel, widgetVars, appVars>>

ScaleNext == CallLimitlabel \/ CallUnit

ScaleSpec == ScaleInit /\ [][ScaleNext]_vars

(***************************************************************************)
(* Widget: the limit and value operations.                                 *)
(***************************************************************************)
\* products up to 26 * 2^30 are kept as <<high, low>> in base 2^15
Base == 32 * K1

\* k * n as <<high, low>>, for 0 <= k <= 26
Wide(k, n) ==
    LET p == k * (n % Base)
    IN  <<k * (n \div Base) + (p \div Base), p % Base>>

WideAdd(x, c) == <<x[1] + ((x[2] + c) \div Base), (x[2] + c) % Base>>

WideLess(x, y) == x[1] < y[1] \/ (x[1] = y[1] /\ x[2] < y[2])

\* (x / 26) < (value / limit), for a cell x of the track and a limit > 0
CellFilled(x, value, limit) ==
    WideLess(Wide(x, limit),
             WideAdd(Wide(26, value.w), (26 * value.f + Den - 1) \div Den))

\* value > 0
Positive(value) == GtInt(value, 0)

\* the number of cells of the 26-cell track drawn as ACS_CKBOARD
\* a track of 25 cells, range(0, 25), instead of 26
FillShort(value, limit) ==
    IF Positive(value)
    THEN Cardinality({x \in 0..24 : CellFilled(x, value, limit)})
    ELSE 0

Fill(value, limit) ==
    IF Positive(value)
    THEN Cardinality({x \in 0..25 : CellFilled(x, value, limit)})
    ELSE 0

\* pct = value / limit divides by zero
DivFails(value, limit) == Positive(value) /\ limit = 0

\* the test of upper_limit / lower_limit on one stored limit
\* the limit is set only while it is still unset
ExceedsUnsetOnly(stored, value) == stored = None

Exceeds(stored, value) == stored = None \/ GtInt(value, stored)

Record(op, value) ==
    hist' = IF hist.n < MaxHist
            THEN [n |-> hist.n + 1,
                  calls |-> Append(hist.calls, [op |-> op, value |-> value])]
            ELSE [n |-> MaxHist + 1, calls |-> <<>>]

\* the body of upper_limit
SetUpper(value) ==
    IF Exceeds(_upper_limit, value)
    THEN /\ _upper_limit' = limitlabel(value).limit
         /\ ulabel' = limitlabel(value).label
    ELSE UNCHANGED <<_upper_limit, ulabel>>

\* the body of lower_limit
SetLower(value) ==
    IF Exceeds(_lower_limit, value)
    THEN /\ _lower_limit' = limitlabel(value).limit
         /\ llabel' = limitlabel(value).label
    ELSE UNCHANGED <<_lower_limit, llabel>>

upper_limit(value) ==
    /\ wraised = "none"
    /\ SetUpper(value)
    /\ Record("upper_limit", value)
    /\ UNCHANGED <<_lower_limit, llabel, mlabel, ubar, lbar, wraised>>

lower_limit(value) ==
    /\ wraised = "none"
    /\ SetLower(value)
    /\ Record("lower_limit", value)
    /\ UNCHANGED <<_upper_limit, ulabel, mlabel, ubar, lbar, wraised>>

limit(value) ==
    /\ wraised = "none"
    /\ IF Exceeds(_upper_limit, value) \/ Exceeds(_lower_limit, value)
       THEN /\ _upper_limit' = limitlabel(value).limit
            /\ _lower_limit' = limitlabel(value).limit
            /\ mlabel' = limitlabel(value).label
       ELSE UNCHANGED <<_upper_limit, _lower_limit, mlabel>>
    /\ Record("limit", value)
    /\ UNCHANGED <<ulabel, llabel, ubar, lbar, wraised>>

\* The value text "(<unit(value, precision)>)" that uvalue and lvalue write after
\* the title is screen content no later call reads; it is not kept in the state
\* (unit itself is exercised by ScaleSpec), so the precision has no parameter.
uvalue(value) ==
    /\ wraised = "none"
    /\ SetUpper(value)
    /\ IF DivFails(value, _upper_limit')
       THEN wraised' = "ZeroDivisionError" /\ ubar' = ubar
       ELSE wraised' = wraised /\ ubar' = Fill(value, _upper_limit')
    /\ Record("uvalue", value)
    /\ UNCHANGED <<_lower_limit, llabel, mlabel, lbar>>

lvalue(value) ==
    /\ wraised = "none"
    /\ SetLower(value)
    /\ IF DivFails(value, _lower_limit')
       THEN wraised' = "ZeroDivisionError" /\ lbar' = lbar
       ELSE wraised' = wraised /\ lbar' = Fill(value, _lower_limit')
    /\ Record("lvalue", value)
    /\ UNCHANGED <<_upper_limit, ulabel, mlabel, ubar>>

(***************************************************************************)
(* WidgetSpec: any sequence of calls on one widget with values >= 0.       *)
(***************************************************************************)
\* zero, a fraction, two small values and the two sides of limitlabel's last
\* threshold
WidgetValues == {Val(0, 0), Val(0, 1), Val(5, 0), Val(100, 0),
                 Val(1024000000, 0), Val(1024000000, 1)}

WidgetSpecInit == ScaleIdle /\ WidgetInit /\ AppIdle

WidgetNext ==
    \/ \E v \in WidgetValues : upper_limit(v) /\ UNCHANGED <<scaleVars, appVars>>
    \/ \E v \in WidgetValues : lower_limit(v) /\ UNCHANGED <<scaleVars, appVars>>
    \/ \E v \in WidgetValues : limit(v) /\ UNCHANGED <<scaleVars, appVars>>
    \/ \E v \in WidgetValues : uvalue(v) /\ UNCHANGED <<scaleVars, appVars>>
    \/ \E v \in WidgetValues : lvalue(v) /\ UNCHANGED <<scaleVars, appVars>>

WidgetSpec == WidgetSpecInit /\ [][WidgetNext]_vars

(***************************************************************************)
(* Metric.refresh, OperatingSystemMetrics and Application.run.             *)
(*                                                                         *)
(* What one urlopen + response handling can do (Metric.refresh):           *)
(*   "ok"     status 200 and a JSON document with 'timestamp' and 'value'  *)
(*   "empty"  status 200 and an empty JSON document                        *)
(*   "not200" a 2xx status other than 200: the body of the 'if' is skipped *)
(*   "raise"  urlopen raises (URLError, or HTTPError for a status outside  *)
(*            2xx)                                                         *)
(***************************************************************************)
Outcomes == {"ok", "empty", "not200", "raise"}

Timestamps == 1..MaxTs
Counters   == 0..MaxCounter
Durations  == 0..MaxStep

\* value /= 1000000000 (nanoseconds to seconds)
Nano == 1000000000

\* Metric.timedelta
timedelta ==
    IF last_timestamp = None \/ curr_timestamp = None
    THEN None
    ELSE curr_timestamp - last_timestamp

\* The process_cpu_time getter: what it returns (delta), what it leaves in
\* prev_value, and the exception it raises.  A rate is the record
\* [num, den, scale] for num / (scale * den): the counters are kept in ns.
process_cpu_time ==
    IF cpu_time = None
    THEN [delta |-> [isnone |-> TRUE], prev |-> prev_value, error |-> "none"]
    ELSE IF prev_value = None
    THEN [delta |-> [num |-> 0, den |-> 1, scale |-> 1], prev |-> cpu_time,
          error |-> "none"]
    ELSE IF last_timestamp = None \/ curr_timestamp = None
    THEN [delta |-> delta, prev |-> prev_value, error |-> "TypeError"]
    ELSE IF timedelta = 0
    THEN [delta |-> delta, prev |-> prev_value, error |-> "ZeroDivisionError"]
    ELSE [delta |-> [num |-> cpu_time - prev_value, den |-> timedelta, scale |-> Nano],
          prev |-> cpu_time, error |-> "none"]

\* Metric.refresh of metric1 with a given outcome that does not raise
Refresh1(outcome, ts, c) ==
    IF outcome = "ok"
    THEN /\ last_timestamp' = curr_timestamp
         /\ curr_timestamp' = ts
         /\ cpu_time' = c
    ELSE IF outcome = "empty"
    THEN /\ cpu_time' = None
         /\ UNCHANGED <<last_timestamp, curr_timestamp>>
    ELSE UNCHANGED <<last_timestamp, curr_timestamp, cpu_time>>

\* Metric.refresh of metric2 or metric3 with a given outcome that does not raise
RefreshN(m, outcome) ==
    has_data' = IF outcome = "ok" THEN [has_data EXCEPT ![m] = TRUE]
                ELSE IF outcome = "empty" THEN [has_data EXCEPT ![m] = FALSE]
                ELSE has_data

Tick(d) == now + d <= MaxTime /\ now' = now + d

\* an exception leaves the try block: the finally clause runs next
Raise == pc' = "finally" /\ result' = "raised"

\* an exception before the try block leaves run at once
RaiseOutside == pc' = "terminated" /\ result' = "raised"

loopLocals == <<loop_time, next_loop_time, work_end, tick_fail>>
metric1Vars == <<last_timestamp, curr_timestamp, cpu_time>>

AppInit ==
    /\ pc = "construct1" /\ done = FALSE /\ screen = "none" /\ result = "running"
    /\ now = 0 /\ loop_time = None /\ next_loop_time = None
    /\ refresh_interval \in 1..MaxInterval
    /\ work_end = None
    /\ tick_fail = FALSE
    /\ last_timestamp = None /\ curr_timestamp = None
    /\ cpu_time = None /\ prev_value = None
    /\ delta = NoResult /\ getter_error = "none"
    /\ has_data = [m \in 2..3 |-> FALSE]
    /\ ScaleIdle /\ WidgetInit

\* self.metric1 = OperatingSystemMetrics()
Construct1 ==
    /\ pc = "construct1"
    /\ \E outcome \in Outcomes, ts \in Timestamps, c \in Counters, d \in Durations :
          /\ Tick(d)
          /\ IF outcome = "raise"
             THEN RaiseOutside /\ UNCHANGED metric1Vars
             ELSE Refresh1(outcome, ts, c) /\ pc' = "construct2" /\ result' = result
    /\ UNCHANGED <<done, screen, refresh_interval, loopLocals, prev_value,
                   delta, getter_error, has_data, scaleVars, widgetVars>>

\* self.metric2 = MemoryMetrics(); self.metric3 = ThreadingMetrics()
ConstructN(m) ==
    /\ pc = IF m = 2 THEN "construct2" ELSE "construct3"
    /\ \E outcome \in Outcomes, d \in Durations :
          /\ Tick(d)
          /\ IF outcome = "raise"
             THEN RaiseOutside /\ has_data' = has_data
             ELSE /\ RefreshN(m, outcome)
                  /\ pc' = (IF m = 2 THEN "construct3" ELSE "construct4")
                  /\ result' = result
    /\ UNCHANGED <<done, screen, refresh_interval, loopLocals, metric1Vars,
                   prev_value, delta, getter_error, scaleVars, widgetVars>>

\* self.metric4 = JRubyMetrics(): without a document its refresh subtracts
\* None from None and raises
Construct4 ==
    /\ pc = "construct4"
    /\ \E outcome \in Outcomes, d \in Durations :
          /\ Tick(d)
          /\ IF outcome = "ok"
             THEN pc' = "initscreen" /\ result' = result
             ELSE RaiseOutside
    /\ UNCHANGED <<done, screen, refresh_interval, loopLocals, metric1Vars,
                   prev_value, delta, getter_error, has_data, scaleVars, widgetVars>>

\* self.initscreen(); self.screen.refresh().  curses.initscr() may fail before
\* the terminal is taken; once it is taken the layout may fail: a curses.error,
\* or a TypeError for a None baseline (available_processors, heap_memory_max).
initscreen ==
    /\ pc = "initscreen"
    /\ \E outcome \in {"initscr_fails", "layout_fails", "ok"} :
          IF outcome = "initscr_fails"
          THEN screen' = screen /\ Raise
          ELSE /\ screen' = "held"
               /\ IF outcome = "layout_fails" \/ cpu_time = None \/ ~has_data[2]
                  THEN Raise
                  ELSE pc' = "loop_test" /\ result' = result
    /\ UNCHANGED <<done, now, refresh_interval, loopLocals, metric1Vars,
                   prev_value, delta, getter_error, has_data, scaleVars, widgetVars>>

\* while not self.done.is_set():
LoopTest ==
    /\ pc = "loop_test"
    /\ pc' = IF done THEN "finally" ELSE "iter_start"
    /\ UNCHANGED <<done, screen, result, now, refresh_interval, loopLocals,
                   metric1Vars, prev_value, delta, getter_error, has_data,
                   scaleVars, widgetVars>>

\* loop_time = time.time(); next_loop_time = loop_time + self.refresh_interval
StartIteration ==
    /\ pc = "iter_start"
    /\ loop_time' = now
    /\ next_loop_time' = now + refresh_interval
    /\ tick_fail' = FALSE
    /\ pc' = "refresh1"
    /\ UNCHANGED <<done, screen, result, now, refresh_interval, work_end,
                   metric1Vars, prev_value, delta, getter_error, has_data,
                   scaleVars, widgetVars>>

\* self.metric1.refresh()
LoopRefresh1 ==
    /\ pc = "refresh1"
    /\ \E outcome \in Outcomes, ts \in Timestamps, c \in Counters, d \in Durations :
          /\ Tick(d)
          /\ tick_fail' = (tick_fail \/ outcome = "not200")
          /\ IF outcome = "raise"
             THEN Raise /\ UNCHANGED metric1Vars
             ELSE Refresh1(outcome, ts, c) /\ pc' = "refresh2" /\ result' = result
    /\ UNCHANGED <<done, screen, refresh_interval, loop_time, next_loop_time,
                   work_end, prev_value, delta, getter_error, has_data,
                   scaleVars, widgetVars>>

\* self.metric2.refresh(); self.metric3.refresh()
LoopRefreshN(m) ==
    /\ pc = IF m = 2 THEN "refresh2" ELSE "refresh3"
    /\ \E outcome \in Outcomes, d \in Durations :
          /\ Tick(d)
          /\ tick_fail' = (tick_fail \/ outcome = "not200")
          /\ IF outcome = "raise"
             THEN Raise /\ has_data' = has_data
             ELSE /\ RefreshN(m, outcome)
                  /\ pc' = (IF m = 2 THEN "refresh3" ELSE "refresh4")
                  /\ result' = result
    /\ UNCHANGED <<done, screen, refresh_interval, loop_time, next_loop_time,
                   work_end, metric1Vars, prev_value, delta,
                   getter_error, scaleVars, widgetVars>>

\* self.metric4.refresh(): an empty document makes it raise (None - None); a
\* skipped answer leaves the old document and the values are taken from it
LoopRefresh4 ==
    /\ pc = "refresh4"
    /\ \E outcome \in Outcomes, d \in Durations :
          /\ Tick(d)
          /\ tick_fail' = (tick_fail \/ outcome = "not200")
          /\ IF outcome \in {"raise", "empty"}
             THEN Raise
             ELSE pc' = "draw" /\ result' = result
    /\ UNCHANGED <<done, screen, refresh_interval, loop_time, next_loop_time,
                   work_end, metric1Vars, prev_value, delta,
                   getter_error, has_data, scaleVars, widgetVars>>

\* The drawing pass of one iteration, from the thread counts to
\* self.screen.refresh().  In the order of the code: a None thread count or
\* load average fails to format (TypeError); then the process_cpu_time getter
\* is evaluated for widget1.uvalue; then a None heap_memory_used fails in
\* widget1.lvalue; any curses call may raise curses.error.
Draw ==
    /\ pc = "draw"
    /\ \E d \in Durations, curses_error \in BOOLEAN :
          /\ Tick(d)
          /\ IF ~has_data[3] \/ cpu_time = None
             THEN Raise /\ UNCHANGED <<prev_value, delta, getter_error, work_end>>
             ELSE /\ prev_value' = process_cpu_time.prev
                  /\ delta' = process_cpu_time.delta
                  /\ getter_error' = process_cpu_time.error
                  /\ IF process_cpu_time.error # "none" \/ ~has_data[2] \/ curses_error
                     THEN Raise /\ work_end' = work_end
                     ELSE pc' = "wait" /\ result' = result /\ work_end' = now'
    /\ UNCHANGED <<done, screen, refresh_interval, loop_time, next_loop_time,
                   tick_fail, metric1Vars, has_data, scaleVars, widgetVars>>

\* a wait that sleeps the whole interval whatever the work took
WaitWholeInterval ==
    /\ pc = "wait"
    /\ (done \/ now + refresh_interval <= MaxTime)
    /\ now' = IF done THEN now ELSE now + refresh_interval
    /\ pc' = "loop_test"
    /\ UNCHANGED <<done, screen, result, refresh_interval, loopLocals,
                   metric1Vars, prev_value, delta, getter_error, has_data,
                   scaleVars, widgetVars>>

\* a wait that does not look at the flag (time.sleep)
WaitUninterruptible ==
    /\ pc = "wait"
    /\ (now >= next_loop_time \/ next_loop_time <= MaxTime)
    /\ now' = IF next_loop_time - now > 0 THEN next_loop_time ELSE now
    /\ pc' = "loop_test"
    /\ UNCHANGED <<done, screen, result, refresh_interval, loopLocals,
                   metric1Vars, prev_value, delta, getter_error, has_data,
                   scaleVars, widgetVars>>

\* self.done.wait(next_loop_time - time.time()): returns at once when the flag
\* is set or the timeout is not positive, else when the timeout has passed (a
\* signal that arrives during the wait is the step Signal, which moves the
\* clock to the moment of its arrival)
Wait ==
    /\ pc = "wait"
    /\ (done \/ now >= next_loop_time \/ next_loop_time <= MaxTime)
    /\ now' = IF ~done /\ next_loop_time - now > 0 THEN next_loop_time ELSE now
    /\ pc' = "loop_test"
    /\ UNCHANGED <<done, screen, result, refresh_interval, loopLocals,
                   metric1Vars, prev_value, delta, getter_error, has_data,
                   scaleVars, widgetVars>>

\* a cleanup that runs only when the loop ended without an exception
EndwinAfterLoop ==
    /\ pc = "finally"
    /\ screen' = IF screen = "held" /\ result = "running" THEN "released" ELSE screen
    /\ result' = IF result = "running" THEN "returned" ELSE result
    /\ pc' = "terminated"
    /\ UNCHANGED <<done, now, refresh_interval, loopLocals, metric1Vars,
                   prev_value, delta, getter_error, has_data, scaleVars, widgetVars>>

\* finally: curses.endwin(); then run returns or the exception propagates
Finally ==
    /\ pc = "finally"
    /\ screen' = IF screen = "held" THEN "released" ELSE screen
    /\ result' = IF result = "running" THEN "returned" ELSE result
    /\ pc' = "terminated"
    /\ UNCHANGED <<done, now, refresh_interval, loopLocals, metric1Vars,
                   prev_value, delta, getter_error, has_data, scaleVars, widgetVars>>

\* Application.setdone, run by SIGHUP, SIGINT or SIGTERM at any point of run;
\* during the cadence wait the signal arrives after some part of the timeout
Signal ==
    /\ pc # "terminated"
    /\ done' = TRUE
    /\ IF pc = "wait" /\ ~done /\ next_loop_time > now
       THEN \E t \in now..next_loop_time : t <= MaxTime /\ now' = t
       ELSE now' = now
    /\ UNCHANGED <<pc, screen, result, refresh_interval, loopLocals, metric1Vars,
                   prev_value, delta, getter_error, has_data, scaleVars, widgetVars>>

\* the steps of the main thread
ProgramStep ==
    \/ Construct1
    \/ ConstructN(2)
    \/ ConstructN(3)
    \/ Construct4
    \/ initscreen
    \/ LoopTest
    \/ StartIteration
    \/ LoopRefresh1
    \/ LoopRefreshN(2)
    \/ LoopRefreshN(3)
    \/ LoopRefresh4
    \/ Draw
    \/ Wait
    \/ Finally

Next == ProgramStep \/ Signal

Spec == AppInit /\ [][Next]_vars

\* The main thread keeps running: every call it makes returns or raises.
FairSpec == Spec /\ WF_vars(ProgramStep)

(***************************************************************************)
(* Claims about the scaling functions, checked under ScaleSpec.            *)
(***************************************************************************)
\* C3: for every value >= 0 the limit returned by limitlabel(value) is
\* greater than or equal to value, whichever of the six branches computes it.
C3_CeilingInvariant ==
    ret_limitlabel # NoResult => LeInt(arg, ret_limitlabel.limit)

\* C3 witness: limitlabel has returned for a value just above 1000, which the
\* power-of-two branch rounds up to 1024.
C3_Witness ==
    /\ arg = Val(1000, 1)
    /\ ret_limitlabel # NoResult
    /\ ret_limitlabel.limit = 1024

\* C4 as stated: limitlabel(3500000) returns limit 3145728 and label "3M ".
C4_AsStated ==
    (arg = Val(3500000, 0) /\ ret_limitlabel # NoResult)
        => /\ ret_limitlabel.limit = 3145728
           /\ ret_limitlabel.label = <<"3", "M", " ">>

\* C4 amended: limitlabel(3500000) returns limit 4194304 (4 * 2^20, the
\* ceiling of 3500000 / 2^20 being 4) and the 3-character label "4M ".
C4_Amended ==
    (arg = Val(3500000, 0) /\ ret_limitlabel # NoResult)
        => /\ ret_limitlabel.limit = 4194304
           /\ ret_limitlabel.label = <<"4", "M", " ">>

\* C4 witness: limitlabel has returned for the value 3500000.
C4_Witness ==
    /\ arg = Val(3500000, 0)
    /\ ret_limitlabel # NoResult
    /\ Len(ret_limitlabel.label) = 3

\* C10: unit(value) carries the suffix K, M or G exactly when limitlabel(value)
\* scales its limit by 2^10, 2^20 or 2^30 and labels it with that suffix.
C10_SuffixAgreement ==
    (ret_unit # NoResult /\ ret_limitlabel # NoResult)
        => /\ ret_unit.suffix = ret_limitlabel.suffix
           /\ ret_unit.div = ret_limitlabel.div

(***************************************************************************)
(* Claims about the Widget limits, checked under WidgetSpec.               *)
(***************************************************************************)
\* C1: over any sequence of upper_limit, lower_limit, limit, uvalue and lvalue
\* calls with values >= 0, the stored limit of each half, once set, never
\* decreases: after each call it is >= its value before the call.
C1_LimitsNeverDecrease ==
    [][ /\ (_upper_limit # None => _upper_limit' >= _upper_limit)
        /\ (_lower_limit # None => _lower_limit' >= _lower_limit) ]_vars

\* the stored limit of the half that call op updates
StoredLimit(op) == IF op = "upper_limit" THEN _upper_limit ELSE _lower_limit

\* C2: for 0 <= value1 <= value2, upper_limit (or lower_limit) applied to a
\* fresh half first with value1 and then with value2 leaves the stored limit
\* equal to limitlabel(max(value1, value2)).limit.
C2_LimitOfMax ==
    (/\ hist.n = 2
     /\ hist.calls[1].op \in {"upper_limit", "lower_limit"}
     /\ hist.calls[2].op = hist.calls[1].op
     /\ LeVal(hist.calls[1].value, hist.calls[2].value))
        => StoredLimit(hist.calls[1].op) = limitlabel(hist.calls[2].value).limit

(***************************************************************************)
(* Claims about Application.run, checked under Spec and FairSpec.          *)
(***************************************************************************)
\* C5: once the stop flag is set (during refresh, drawing or the cadence
\* wait) it stays set, the loop test starts no further iteration, a wait
\* returns at once instead of after the remaining interval, a later signal
\* changes nothing, and the run reaches its terminated state.
C5_StopEndsRun ==
    /\ [][ done => /\ done'
                   /\ (pc = "loop_test" /\ pc' # pc => pc' = "finally")
                   /\ (pc = "wait" /\ pc' # pc => pc' = "loop_test" /\ now' = now)
                   /\ (pc' = pc => UNCHANGED vars) ]_vars
    /\ (done ~> pc = "terminated")

\* C5 witness: the flag was set during a cadence wait and the wait has
\* returned before its deadline.
C5_Witness ==
    /\ pc = "loop_test" /\ done
    /\ work_end # None /\ now < next_loop_time

\* C6: run never ends (by return or by a propagating exception) with the
\* terminal still held: on every path that called curses.initscr,
\* curses.endwin has run before the terminated state.
C6_TerminalReleased == pc = "terminated" => screen # "held"

\* C6 witness: an exception raised inside the loop has propagated and the
\* terminal has been released.
C6_Witness ==
    /\ pc = "terminated" /\ result = "raised"
    /\ screen = "released" /\ loop_time # None

\* C7: with no stop signal, when the work of an iteration took w < I the wait
\* ends exactly I after the start of the iteration, and when w >= I it ends at
\* once (no negative or catch-up wait); the next iteration starts at that
\* moment, with its deadline I later.
C7_Cadence ==
    /\ (/\ (pc = "loop_test" /\ ~done) \/ pc = "iter_start"
        /\ loop_time # None)
          => now = IF work_end - loop_time < refresh_interval
                   THEN loop_time + refresh_interval
                   ELSE work_end
    /\ pc = "refresh1"
          => loop_time = now /\ next_loop_time = loop_time + refresh_interval

\* C7 witness: an iteration whose work took 0 < w < I is followed by the next
\* iteration's start exactly I after its own start.
C7_Witness ==
    /\ pc = "iter_start" /\ loop_time # None
    /\ work_end > loop_time
    /\ work_end < loop_time + refresh_interval
    /\ now = loop_time + refresh_interval

\* the drawing step evaluates the process_cpu_time getter
GetterEvaluated == pc = "draw" /\ pc' # pc /\ has_data[3] /\ cpu_time # None

\* C8: for every sequence of refresh outcomes the getter returns 0 on its
\* first evaluation with a present counter and afterwards
\* (current - previous) / elapsed, it divides only when a previous sample
\* exists and the elapsed time is present and non-zero, and it never fails.
C8_RateGuarded ==
    [][ GetterEvaluated =>
          /\ getter_error' = "none"
          /\ prev_value' = cpu_time
          /\ IF prev_value = None
             THEN delta' = [num |-> 0, den |-> 1, scale |-> 1]
             ELSE /\ last_timestamp # None /\ curr_timestamp # None
                  /\ curr_timestamp # last_timestamp
                  /\ delta' = [num |-> cpu_time - prev_value,
                               den |-> curr_timestamp - last_timestamp,
                               scale |-> Nano] ]_vars

\* C9: no iteration in which a refresh got an answer that is not status 200
\* completes its drawing pass: such a fetch ends the loop with an error.
C9_FailedFetchEndsLoop == ~(tick_fail /\ pc = "wait")

(***************************************************************************)
(* Claim about Widget.unit, checked under ScaleSpec.                       *)
(***************************************************************************)
\* the suffix class of a value by the thresholds 2^10, 2^20, 2^30
\* (above 2^30, above 2^20 up to 2^30, above 2^10 up to 2^20, the rest)
SuffixClass(v) ==
    IF v.w > G1 \/ (v.w = G1 /\ v.f > 0) THEN "G"
    ELSE IF v.w > M1 \/ (v.w = M1 /\ v.f > 0) THEN "M"
    ELSE IF v.w > K1 \/ (v.w = K1 /\ v.f > 0) THEN "K"
    ELSE ""

ClassDivisor(c) == IF c = "G" THEN G1 ELSE IF c = "M" THEN M1
                   ELSE IF c = "K" THEN K1 ELSE 1

\* C11: for every value v >= 0 and precision p, unit(v, p) ends in G iff
\* v > 2^30, in M iff 2^20 < v <= 2^30, in K iff 2^10 < v <= 2^20 and has no
\* suffix otherwise; exactly one class applies, and the number printed is v
\* divided by exactly the power of two of that class (unit(2048, 1) = "2.0K").
C11_UnitSuffix ==
    ret_unit # NoResult =>
        LET c   == SuffixClass(arg)
            d   == ClassDivisor(c)
            num == FormatFixed(arg.w \div d, arg.w % d, arg.f, d, prec)
        IN  /\ ret_unit.suffix = c
            /\ ret_unit.div = d
            /\ ret_unit.text = (IF c = "" THEN num ELSE Append(num, c))
            /\ (arg = Val(2048, 0) /\ prec = 1
                   => ret_unit.text = <<"2", ".", "0", "K">>)
            /\ (arg = Val(K1, 0) /\ prec = 0
                   => ret_unit.text = <<"1", "0", "2", "4">>)
            /\ (arg = Val(M1, 1) /\ prec = 0
                   => ret_unit.text = <<"1", "M">>)

\* C11 witness: unit has formatted 2048 with one decimal as "2.0K".
C11_Witness ==
    /\ arg = Val(2048, 0) /\ prec = 1
    /\ ret_unit # NoResult
    /\ ret_unit.text = <<"2", ".", "0", "K">>

(***************************************************************************)
(* Claims about the 26-cell bars of uvalue and lvalue, checked under       *)
(* WidgetSpec.                                                             *)
(***************************************************************************)
\* sample values around a stored limit L: zero, one sample step, fractions
\* of L, L itself and values above it
BarValues(L) ==
    {Val(w, f) : w \in {0, L \div 26, L \div 2, L - 1, L, L + 1}, f \in {0, 1}}

\* the fill count of the bar rule for a fixed limit L > 0 is non-decreasing
\* in the value, 0 for value 0 and 26 for every value >= L
FillRule(L) ==
    LET F == [v \in BarValues(L) |-> Fill(v, L)]
    IN  /\ F[Val(0, 0)] = 0
        /\ \A v1 \in BarValues(L) :
              /\ F[v1] \in 0..26
              /\ v1.w >= L => F[v1] = 26
              /\ \A v2 \in BarValues(L) : LeVal(v1, v2) => F[v1] <= F[v2]

\* a bar just drawn for value under the stored limit L obeys the rule
BarDrawn(value, L, bar) ==
    /\ value = Val(0, 0) => bar = 0
    /\ GtInt(value, 0) => bar >= 1
    /\ value.w >= L => bar = 26
    /\ \A v2 \in BarValues(L) :
          /\ LeVal(value, v2) => bar <= Fill(v2, L)
          /\ LeVal(v2, value) => Fill(v2, L) <= bar

\* the last call, while the history still holds it
LastCallIs(op) ==
    /\ hist.n \in 1..MaxHist
    /\ hist.calls[hist.n].op = op

LastValue == hist.calls[hist.n].value

\* C12: for a fixed stored limit L > 0 the number of filled cells drawn by
\* uvalue/lvalue on the 26-cell track is non-decreasing in the value, is 0
\* for value 0 and is 26 when value >= L.
C12_FillMonotone ==
    /\ (LastCallIs("uvalue") /\ _upper_limit > 0) =>
           /\ FillRule(_upper_limit)
           /\ BarDrawn(LastValue, _upper_limit, ubar)
    /\ (LastCallIs("lvalue") /\ _lower_limit > 0) =>
           /\ FillRule(_lower_limit)
           /\ BarDrawn(LastValue, _lower_limit, lbar)

\* C12 witness: lvalue(100) filled the lower bar, then lvalue(5) drew 2 of
\* the 26 cells under the same limit 100.
C12_Witness ==
    /\ hist.n = 2
    /\ hist.calls[1] = [op |-> "lvalue", value |-> Val(100, 0)]
    /\ hist.calls[2] = [op |-> "lvalue", value |-> Val(5, 0)]
    /\ _lower_limit = 100
    /\ lbar = 2

\* the fill fraction value / L is defined and lies in (0, 1]
FractionInUnit(value, L) == L > 0 /\ LeInt(value, L)

\* C13: after any sequence of upper_limit, lower_limit, limit, uvalue and
\* lvalue calls with non-negative values (a first value of 0 included, which
\* stores limit 0), every uvalue or lvalue call that divides its value by
\* the stored limit of its half (value > 0) finds that limit greater than 0
\* and not below the value: no call raises ZeroDivisionError, and no step
\* that leaves the fraction outside (0, 1] is a uvalue or lvalue step.
C13_NoZeroDivision ==
    [][/\ wraised' = "none"
       /\ \A v \in WidgetValues :
             Positive(v) =>
                 /\ FractionInUnit(v, _upper_limit') \/ ~uvalue(v)
                 /\ FractionInUnit(v, _lower_limit') \/ ~lvalue(v)]_vars

\* C13 witness: the first value 0 stored limit 0, then uvalue drew the
\* positive value 1/2 under the limit 1 it had just stored.
C13_Witness ==
    /\ hist.n = 2
    /\ hist.calls[1] = [op |-> "uvalue", value |-> Val(0, 0)]
    /\ hist.calls[2] = [op |-> "uvalue", value |-> Val(0, 1)]
    /\ _upper_limit = 1
    /\ ubar = 13
    /\ wraised = "none"

====
